---- MODULE Spec2Model ----
(***************************************************************************)
(* GainVoltage.C: for each of NPMT photomultiplier channels the macro      *)
(* re-reads the input table, collects the rows of that channel in          *)
(* fixed-size buffers, skips the channel unless it has 3 or 6 rows, fits a *)
(* straight line ten times in a row and appends a three-line block to the  *)
(* fit table.                                                              *)
(*                                                                         *)
(* The input file is a whitespace-separated token stream.  The values of   *)
(* a row are fixed by its position in the file, so the inputs differ in    *)
(* the channel of each row, in the order of the rows and in where a row is *)
(* malformed (a non-numeric field, or a field missing).                    *)
(*                                                                         *)
(* TGraph::Fit, TF1::GetParError, GetChisquare, GetNDF and GetProb are     *)
(* library code: they are modelled as deterministic integer functions of   *)
(* the start parameters and of the sample.  Plotting and the ROOT/PDF      *)
(* output (lines 172-200) have no effect on the fit table and are left     *)
(* out.                                                                    *)
(***************************************************************************)
EXTENDS Integers, Sequences, FiniteSets, TLC

\* ------------------------------------------------------------- bounds
MaxRows == 7
MaxMalformed == 1

\* ---------------------------------------------------------- constants
NPMT == 10
RawCap == 6
NREFIT == 9
NPLACEHOLDER == 2
NFIELDS == 7
Power10_7 == 10000000
VoltageError == 2

\* channels that occur in the input files explored
InputPmts == {1, 2}

\* first fit parameters, fit->SetParameters(-30,7)
SeedPar == <<-30, 7>>

\* the counts the check at line 101 lets through
ValidCount(n) == n = 3 \/ n = 6

\* the channel examined by loop iteration k (pmt_num + 1)
ChannelId_desc(k) == NPMT - k
ChannelId(k) == k + 1

\* ------------------------------------------------------ the input file
Num(n) == [num |-> TRUE, val |-> n]
Junk == [num |-> FALSE, val |-> 0]

RowSpecs ==
  [p : InputPmts, shape : {"ok"}]
    \cup {[p |-> 1, shape |-> "bad"], [p |-> 1, shape |-> "short"]}

VoltageAt(i) == 100 + 10 * i
GainAt(i) == i
GainErrorAt(i) == 1

\* the tokens of row i of the file
RowTokens(r, i) ==
  IF r.shape = "ok"
    THEN <<Num(r.p), Num(VoltageAt(i)), Num(GainAt(i)), Num(GainErrorAt(i))>>
  ELSE IF r.shape = "bad"
    THEN <<Num(r.p), Junk, Num(GainAt(i)), Num(GainErrorAt(i))>>
  ELSE <<Num(r.p), Num(VoltageAt(i)), Num(GainAt(i))>>

RECURSIVE TokensFrom(_, _)
TokensFrom(rows, i) ==
  IF i > Len(rows) THEN <<>>
  ELSE RowTokens(rows[i], i) \o TokensFrom(rows, i + 1)

\* the file as the stream sees it: line breaks are white space
Tokens(rows) == TokensFrom(rows, 1)

Malformed(rows) == {i \in DOMAIN rows : rows[i].shape /= "ok"}

Inputs ==
  {rows \in UNION {[1..n -> RowSpecs] : n \in 0..MaxRows} :
     Cardinality(Malformed(rows)) <= MaxMalformed}

\* ------------------------------------------------ reading (lines 64-75)
CanExtract_lenient(toks, k) == k + 3 <= Len(toks)

\* input_file >> p >> v >> g >> ge succeeds at token k
CanExtract(toks, k) ==
  /\ k + 3 <= Len(toks)
  /\ \A d \in 0..3 : toks[k + d].num

Extracted(toks, k) ==
  [p |-> toks[k].val, v |-> toks[k + 1].val,
   g |-> toks[k + 2].val, ge |-> toks[k + 3].val]

\* the body of the if at line 69: store at index num_data_points
StoreRecord(st, rec) ==
  [n |-> st.n + 1,
   buf |-> IF st.n < RawCap
             THEN Append(st.buf, [v |-> rec.v, ve |-> VoltageError,
                                  g |-> rec.g * Power10_7,
                                  ge |-> rec.ge * Power10_7])
             ELSE st.buf,
   stores |-> Append(st.stores, st.n),
   nrec |-> st.nrec,
   pos |-> st.pos]

\* the while loop of line 68 for channel c, from token k
RECURSIVE ReadLoop(_, _, _, _)
ReadLoop(toks, k, c, st) ==
  IF ~CanExtract(toks, k) THEN [st EXCEPT !.pos = k]
  ELSE LET rec == Extracted(toks, k)
           st1 == [st EXCEPT !.nrec = st.nrec + 1]
       IN  IF rec.p = c
             THEN ReadLoop(toks, k + 4, c, StoreRecord(st1, rec))
             ELSE ReadLoop(toks, k + 4, c, st1)

EmptyRead == [n |-> 0, buf |-> <<>>, stores |-> <<>>, nrec |-> 0, pos |-> 1]

\* line 57: the ifstream is constructed anew in every iteration, so the
\* read starts at the first token whatever the last read left behind
OpenPos_shared(prev) == prev
OpenPos(prev) == 1

\* a store past the end of the raw buffers happened
Overflowed(st) == \E i \in 1..Len(st.stores) : st.stores[i] >= RawCap

\* what a store past the end of the buffers can do to the run: land in
\* memory nothing reads again, end the process, or overwrite the counter
\* num_data_points that lives in the same frame.  (The reads of lines 90-98
\* at the same indices follow the store and add no further outcome.)
UBOutcomes == {"benign", "crash", "clobber"}
ClobberCounts == 0..MaxRows

\* ------------------------------------------------- the fit (library)
Abs(x) == IF x < 0 THEN -x ELSE x

RECURSIVE SumV(_)
SumV(s) == IF s = <<>> THEN 0 ELSE Head(s).v + SumV(Tail(s))

RECURSIVE SumG(_)
SumG(s) ==
  IF s = <<>> THEN 0 ELSE (Head(s).g \div Power10_7) + SumG(Tail(s))

\* the parameters the minimiser moves towards
Target(s) == <<SumV(s), SumG(s)>>

\* one call of data->Fit("fit","ME") started at par
FitPass(par, s) ==
  <<par[1] + ((Target(s)[1] - par[1]) \div 2),
    par[2] + ((Target(s)[2] - par[2]) \div 2)>>

\* the start of a re-fit (lines 142-143)
RefitStart_seed(par) == SeedPar
RefitStart(par) == par

GetParError(k, par, s) == Abs(Target(s)[k + 1] - par[k + 1])
GetChisquare(par, s) == GetParError(0, par, s) + GetParError(1, par, s)
GetNDF(s) == Len(s) - 2
GetProb(par, s) == IF GetChisquare(par, s) = 0 THEN 1 ELSE 0

\* lines 149-151 and the getters of lines 165-169
FitResult(par, s) ==
  [constant |-> par[1], constant_error |-> GetParError(0, par, s),
   exponent |-> par[2], exponent_error |-> GetParError(1, par, s),
   chi_square |-> GetChisquare(par, s), degrees_of_freedom |-> GetNDF(s),
   fit_probability |-> GetProb(par, s)]

\* --------------------------------------------- fit table (lines 154-170)
PlaceholderLine == [i \in 1..NFIELDS |-> "--"]

DataLine_swapped(fr) ==
  <<ToString(fr.exponent), ToString(fr.exponent_error),
    ToString(fr.constant), ToString(fr.constant_error),
    ToString(fr.chi_square), ToString(fr.degrees_of_freedom),
    ToString(fr.fit_probability)>>
DataLine(fr) ==
  <<ToString(fr.constant), ToString(fr.constant_error),
    ToString(fr.exponent), ToString(fr.exponent_error),
    ToString(fr.chi_square), ToString(fr.degrees_of_freedom),
    ToString(fr.fit_probability)>>

\* ----------------------------------------------------------- the state
VARIABLES
  input,            \* the rows of <chimney>.txt
  readable,         \* whether <chimney>.txt can be opened
  pc,               \* position in GainVoltage
  pmt_num,          \* loop variable of line 53
  num_data_points,  \* line 66
  raw,              \* voltage_raw, gain_raw, gain_error_raw (filled part)
  par,              \* parameters of the TF1 "fit"
  j,                \* loop variable of line 141, then of line 155
  fout,             \* lines of <chimney>_gainvsvoltage.txt
  console,          \* channels reported "Improper number of data points"
  stores,           \* history: indices stored to by the last read
  nopen,            \* history: times the input file was opened
  inpos,            \* token at which the last read of the input stopped
  nrec,             \* history: records extracted by the last read
  passes,           \* history: per channel, start and result of each fit
  results,          \* history: per channel, the FitResult extracted
  run,              \* number of the run
  out1              \* history: fit table left by the first run

vars == <<input, readable, pc, pmt_num, num_data_points, raw, par, j, fout,
          console, stores, nopen, inpos, nrec, passes, results, run, out1>>

NoResult ==
  [constant |-> 0, constant_error |-> 0, exponent |-> 0, exponent_error |-> 0,
   chi_square |-> 0, degrees_of_freedom |-> 0, fit_probability |-> 0]

Init ==
  /\ \/ input \in Inputs /\ readable = TRUE
     \/ input = <<>> /\ readable = FALSE
  /\ pc = "start"
  /\ pmt_num = 0
  /\ num_data_points = 0
  /\ raw = <<>>
  /\ par = SeedPar
  /\ j = 0
  /\ fout = <<>>
  /\ console = <<>>
  /\ stores = <<>>
  /\ nopen = 0
  /\ inpos = 1
  /\ nrec = 0
  /\ passes = [c \in 1..NPMT |-> <<>>]
  /\ results = [c \in 1..NPMT |-> NoResult]
  /\ run = 1
  /\ out1 = <<>>

\* lines 44-47: fstream fout(..., ios::out) truncates the fit table
Start ==
  /\ pc = "start"
  /\ fout' = <<>>
  /\ pmt_num' = 0
  /\ pc' = "read"
  /\ UNCHANGED <<input, readable, num_data_points, raw, par, j, console,
                 stores, nopen, inpos, nrec, passes,
                 results, run, out1>>

\* lines 53-75: open the input and collect the rows of channel pmt_num + 1
ReadInput ==
  /\ pc = "read"
  /\ pmt_num < NPMT
  /\ LET toks == IF readable THEN Tokens(input) ELSE <<>>
         st == ReadLoop(toks, OpenPos(inpos), ChannelId(pmt_num), EmptyRead)
     IN  /\ stores' = st.stores
         /\ inpos' = st.pos
         /\ nrec' = st.nrec
         /\ raw' = st.buf
         /\ nopen' = nopen + 1
         /\ IF ~Overflowed(st)
              THEN /\ num_data_points' = st.n
                   /\ pc' = "check"
              ELSE \E ub \in UBOutcomes :
                     \/ /\ ub = "benign"
                        /\ num_data_points' = st.n
                        /\ pc' = "check"
                     \/ /\ ub = "crash"
                        /\ num_data_points' = st.n
                        /\ pc' = "crashed"
                     \/ /\ ub = "clobber"
                        /\ num_data_points' \in ClobberCounts
                        /\ pc' = "check"
  /\ UNCHANGED <<input, readable, pmt_num, par, j, fout, console, passes,
                 results, run, out1>>

\* lines 101-107: the channel is skipped
Skip ==
  /\ pc = "check"
  /\ ~ValidCount(num_data_points)
  /\ console' = Append(console, ChannelId(pmt_num))
  /\ pmt_num' = pmt_num + 1
  /\ pc' = "read"
  /\ UNCHANGED <<input, readable, num_data_points, raw, par, j, fout, stores,
                 nopen, inpos, nrec, passes,
                 results, run, out1>>

Sample == SubSeq(raw, 1, num_data_points)

\* lines 101, 110-140: the first fit, from the fixed seed
FirstFit ==
  /\ pc = "check"
  /\ ValidCount(num_data_points)
  /\ par' = FitPass(SeedPar, Sample)
  /\ passes' = [passes EXCEPT ![ChannelId(pmt_num)] =
                  <<[start |-> SeedPar, result |-> par']>>]
  /\ j' = 0
  /\ pc' = "refit"
  /\ UNCHANGED <<input, readable, pmt_num, num_data_points, raw, fout,
                 console, stores, nopen, inpos, nrec, results,
                 run, out1>>

\* lines 141-145: one more fit, started at the parameters of the last one
Refit ==
  /\ pc = "refit"
  /\ j < NREFIT
  /\ par' = FitPass(RefitStart(par), Sample)
  /\ passes' = [passes EXCEPT ![ChannelId(pmt_num)] =
                  Append(@, [start |-> RefitStart(par), result |-> par'])]
  /\ j' = j + 1
  /\ UNCHANGED <<input, readable, pc, pmt_num, num_data_points, raw, fout,
                 console, stores, nopen, inpos, nrec, results,
                 run, out1>>

\* lines 147-152: extract the fit parameters
ExtractPar ==
  /\ pc = "refit"
  /\ j >= NREFIT
  /\ results' = [results EXCEPT ![ChannelId(pmt_num)] = FitResult(par, Sample)]
  /\ j' = 0
  /\ pc' = "write"
  /\ UNCHANGED <<input, readable, pmt_num, num_data_points, raw, par, fout,
                 console, stores, nopen, inpos, nrec, passes,
                 run, out1>>

Line(kind, c, f) == [kind |-> kind, pmt |-> c, f |-> f]

\* lines 155-163: one line of dashes
WritePlaceholder ==
  /\ pc = "write"
  /\ j < NPLACEHOLDER
  /\ fout' = Append(fout, Line("placeholder", ChannelId(pmt_num), PlaceholderLine))
  /\ j' = j + 1
  /\ UNCHANGED <<input, readable, pc, pmt_num, num_data_points, raw, par,
                 console, stores, nopen, inpos, nrec, passes,
                 results, run, out1>>

\* lines 164-170: the line of values; then the next channel
WriteData ==
  /\ pc = "write"
  /\ j >= NPLACEHOLDER
  /\ fout' = Append(fout, Line("data", ChannelId(pmt_num),
                               DataLine(FitResult(par, Sample))))
  /\ pmt_num' = pmt_num + 1
  /\ pc' = "read"
  /\ UNCHANGED <<input, readable, num_data_points, raw, par, j, console,
                 stores, nopen, inpos, nrec, passes,
                 results, run, out1>>

\* line 53: the loop ends
Finish ==
  /\ pc = "read"
  /\ pmt_num >= NPMT
  /\ pc' = "done"
  /\ UNCHANGED <<input, readable, pmt_num, num_data_points, raw, par, j, fout,
                 console, stores, nopen, inpos, nrec, passes,
                 results, run, out1>>

Next ==
  \/ Start
  \/ ReadInput
  \/ Skip
  \/ FirstFit
  \/ Refit
  \/ ExtractPar
  \/ WritePlaceholder
  \/ WriteData
  \/ Finish

Spec == Init /\ [][Next]_vars

\* the macro is run again on the same input; the fit table of the first run
\* is still on disk, everything else starts afresh
Rerun ==
  /\ pc \in {"done", "crashed"}
  /\ run = 1
  /\ run' = 2
  /\ out1' = fout
  /\ pc' = "start"
  /\ pmt_num' = 0
  /\ num_data_points' = 0
  /\ raw' = <<>>
  /\ par' = SeedPar
  /\ j' = 0
  /\ console' = <<>>
  /\ stores' = <<>>
  /\ nopen' = 0
  /\ inpos' = 1
  /\ nrec' = 0
  /\ passes' = [c \in 1..NPMT |-> <<>>]
  /\ results' = [c \in 1..NPMT |-> NoResult]
  /\ UNCHANGED <<input, readable, fout>>

NextRerun ==
  \/ Next
  \/ Rerun

SpecRerun == Init /\ [][NextRerun]_vars

\* ------------------------------------------------ what the claims speak of
\* the token stream of the input source
Toks == IF readable THEN Tokens(input) ELSE <<>>

\* the numeric tokens in front of the first token that is not a number
NumericPrefix(toks) ==
  LET junk == {k \in DOMAIN toks : ~toks[k].num}
  IN  IF junk = {} THEN Len(toks)
      ELSE (CHOOSE k \in junk : \A m \in junk : k <= m) - 1

\* the records of the input: the complete groups of four numeric tokens
GroupsIn(toks) == NumericPrefix(toks) \div 4
CountIn(toks, c) ==
  Cardinality({q \in 1..GroupsIn(toks) : toks[4 * (q - 1) + 1].val = c})
NGroups == GroupsIn(Toks)
CountFor(c) == CountIn(Toks, c)

\* the well-formed rows of channel c, wherever they stand in the file
WellFormedCount(c) ==
  Cardinality({i \in DOMAIN input : input[i].shape = "ok" /\ input[i].p = c})

IsData(l) == l.kind = "data"
IsPlaceholder(l) == l.kind = "placeholder"
LinesOf(c) == {i \in DOMAIN fout : fout[i].pmt = c}
HasData(c) == \E i \in LinesOf(c) : IsData(fout[i])
Skipped(c) == \E i \in DOMAIN console : console[i] = c
Fitted(c) == passes[c] /= <<>>
BlockOf(i) == (i - 1) \div 3
Ended == pc \in {"done", "crashed"}

\* ---------------------------------------------------------------- C1
\* C1: when the run has ended it has ended normally, and every channel c of
\* 1..NPMT was fitted and got a data line if and only if the input holds
\* exactly 3 or exactly 6 records of c, and was reported as skipped, with
\* no data line, otherwise.
C1_FitIffThreeOrSix ==
  Ended =>
    /\ pc = "done"
    /\ \A c \in 1..NPMT :
         /\ ValidCount(CountFor(c)) <=> (Fitted(c) /\ HasData(c))
         /\ ~ValidCount(CountFor(c)) <=>
              (Skipped(c) /\ ~Fitted(c) /\ ~HasData(c))

\* ---------------------------------------------------------------- C2
\* C2: after a run every skipped channel has its two placeholder lines and
\* no data line in the fit table, and the block of channel c starts at
\* line 3 * (c - 1) + 1 whichever channels were skipped.
C2_SlotForEveryChannel ==
  pc = "done" =>
    /\ \A c \in 1..NPMT :
         Skipped(c) =>
           /\ Cardinality(LinesOf(c)) = NPLACEHOLDER
           /\ \A i \in LinesOf(c) : IsPlaceholder(fout[i])
    /\ \A i \in DOMAIN fout : fout[i].pmt = BlockOf(i) + 1

\* ---------------------------------------------------------------- C3
\* C3: in the fit table the channel of a line never decreases from one line
\* to the next, and two lines of the same channel belong to the same block
\* of three: the blocks stand in strictly increasing channel order and no
\* channel has two blocks, whatever the order of the input rows.
C3_BlocksIncreasing ==
  \A i \in DOMAIN fout : \A k \in DOMAIN fout :
    i < k =>
      /\ fout[i].pmt <= fout[k].pmt
      /\ fout[i].pmt = fout[k].pmt => BlockOf(i) = BlockOf(k)

\* two channels were fitted from an input in which a row of channel 2
\* stands before a row of channel 1
C3_Witness ==
  /\ pc = "done"
  /\ HasData(1)
  /\ HasData(2)
  /\ \E i \in DOMAIN input : \E k \in DOMAIN input :
       /\ i < k
       /\ input[i].shape = "ok" /\ input[i].p = 2
       /\ input[k].shape = "ok" /\ input[k].p = 1

\* ---------------------------------------------------------------- C4
\* C4: the fit table is a sequence of blocks of three lines, each block of
\* one channel and no channel in two blocks: the first two lines of a block
\* hold "--" in all 7 fields, the third holds the 7 fields constant,
\* constant_error, exponent, exponent_error, chi_square,
\* degrees_of_freedom, fit_probability of that channel's fit, in that
\* order; only while a block is being written is the table not a whole
\* number of blocks.
C4_ThreeLineBlocks ==
  /\ pc /= "write" => Len(fout) % 3 = 0
  /\ \A i \in DOMAIN fout :
       LET l == fout[i]
           r == results[l.pmt]
       IN  /\ Len(l.f) = 7
           /\ \A k \in DOMAIN fout :
                (fout[k].pmt = l.pmt) <=> (BlockOf(k) = BlockOf(i))
           /\ IF i % 3 = 0
                THEN /\ IsData(l)
                     /\ l.f[1] = ToString(r.constant)
                     /\ l.f[2] = ToString(r.constant_error)
                     /\ l.f[3] = ToString(r.exponent)
                     /\ l.f[4] = ToString(r.exponent_error)
                     /\ l.f[5] = ToString(r.chi_square)
                     /\ l.f[6] = ToString(r.degrees_of_freedom)
                     /\ l.f[7] = ToString(r.fit_probability)
                     /\ r.degrees_of_freedom \in {3 - 2, 6 - 2}
                ELSE /\ IsPlaceholder(l)
                     /\ \A k \in 1..7 : l.f[k] = "--"

\* a run that wrote two blocks, with a constant that differs from the
\* exponent
C4_Witness ==
  /\ pc = "done"
  /\ Len(fout) = 6
  /\ IsData(fout[3]) /\ IsData(fout[6])
  /\ fout[3].f[1] /= fout[3].f[3]
  /\ fout[3].f[1] /= fout[6].f[1]

C6_UnreadableIsFatal ==
  ~readable =>
    /\ pc \in {"start", "read"}
    /\ pmt_num = 0
    /\ console = <<>>

\* ---------------------------------------------------------------- C7
\* C7: a second run on the same input ends with the fit table the first
\* run left.
C7_RerunSameTable ==
  (run = 2 /\ Ended) => fout = out1

\* ---------------------------------------------------------------- C8
\* C8: every data line of the fit table belongs to a channel with exactly
\* 10 fit passes, the first started at (-30, 7), each later one started at
\* the result of the pass before it, and the line's constant and exponent
\* are the result of the 10th pass.
C8_TenChainedPasses ==
  \A i \in DOMAIN fout :
    IsData(fout[i]) =>
      LET ps == passes[fout[i].pmt]
      IN  /\ Len(ps) = 10
          /\ ps[1].start = <<-30, 7>>
          /\ \A k \in 1..9 : ps[k + 1].start = ps[k].result
          /\ fout[i].f[1] = ToString(ps[10].result[1])
          /\ fout[i].f[3] = ToString(ps[10].result[2])

\* a data line whose constant the 10th pass still changed
C8_Witness ==
  /\ pc = "done"
  /\ \E i \in DOMAIN fout :
       /\ IsData(fout[i])
       /\ passes[fout[i].pmt][10].result /= passes[fout[i].pmt][9].result
       /\ passes[fout[i].pmt][1].result /= <<-30, 7>>

\* ---------------------------------------------------------------- C9
\* C9: every store into the raw buffers uses an index in 0..5.
C9_StoresInBounds ==
  \A i \in DOMAIN stores : stores[i] \in 0..(RawCap - 1)

\* ---------------------------------------------------------------- C10
\* C10 as claimed: the input is opened once, and no read of the input
\* completes after a line was written to the fit table.
C10_BulkReadThenBulkWrite ==
  /\ nopen <= 1
  /\ pc = "check" => fout = <<>>

\* C10 as amended: the input is opened and read from its first record to
\* its last once per channel, at the start of that channel's loop
\* iteration (NPMT times in a run that completes), and the lines of a
\* channel are written within its iteration: the read for channel c comes
\* before the lines of c and after the lines of the fitted channels below c.
C10_ReadPerChannel ==
  /\ nopen = pmt_num + (IF pc \in {"check", "refit", "write", "crashed"}
                          THEN 1 ELSE 0)
  /\ pc = "done" => nopen = NPMT
  /\ pc \in {"check", "refit", "write"} => nrec = NGroups
  /\ \A i \in DOMAIN fout : fout[i].pmt <= nopen

\* the read for the second channel, after the block of the first was
\* written
C10_Witness ==
  /\ pc = "check"
  /\ pmt_num = 1
  /\ Len(fout) = 3
  /\ nrec >= 3

====
